---- MODULE Spec2Model ----
(***************************************************************************)
(* Model of the MLP lookup page (src/app.py): the cached catalog, the      *)
(* paste box and its check boxes, and the "Find MLPs" handler (parse,      *)
(* exact join, optional contains fallback, status, filter, projection).    *)
(*                                                                         *)
(* A string is a sequence of one-character strings; a data frame is a      *)
(* sequence of records, one record per row.                                *)
(***************************************************************************)
EXTENDS Integers, Sequences, FiniteSets, TLC

\* ------------------------------------------------------------------ bounds
\* longest text typed into the paste box (resolution specification)
MaxText == 4
\* longest raw text given to parse_models (parsing specification)
MaxRaw == 5
\* most rows in products.csv
MaxCat == 2

\* ----------------------------------------------------------------- strings
\* str.upper() on the letters of the model's alphabet
UpperChar(c) ==
  CASE c = "a" -> "A"
    [] c = "b" -> "B"
    [] OTHER -> c

upper(s) == [i \in 1..Len(s) |-> UpperChar(s[i])]

\* the characters str.strip() removes
IsSpace(c) == c \in {" ", "\t", "\n", "\r", "\f"}

RECURSIVE lstrip(_)
lstrip(s) ==
  IF s # <<>> /\ IsSpace(Head(s)) THEN lstrip(Tail(s)) ELSE s

RECURSIVE rstrip(_)
rstrip(s) ==
  IF s # <<>> /\ IsSpace(s[Len(s)]) THEN rstrip(SubSeq(s, 1, Len(s) - 1)) ELSE s

strip(s) == rstrip(lstrip(s))

\* the missing value a left join leaves in the cells of an unmatched row
NaN == <<"NaN">>

isna(x) == x = NaN

\* str(x) / astype(str): a missing value prints as the text nan
str(x) == IF isna(x) THEN <<"n", "a", "n">> ELSE x

\* Series.str.contains(re.escape(key)): key occurs literally somewhere in hay
contains(hay, key) ==
  \E i \in 1..(Len(hay) + 1) :
    /\ i + Len(key) - 1 <= Len(hay)
    /\ SubSeq(hay, i, i + Len(key) - 1) = key

\* ------------------------------------------------------------ parse_models
\* the character class of the re.split pattern
DelimsNoNewline == {",", "\t", ";"}

Delims == {"\n", ",", "\t", ";"}

\* re.split on single delimiter characters: the pieces between delimiters,
\* empty pieces included; cur is the piece being read
RECURSIVE split(_, _)
split(raw, cur) ==
  IF raw = <<>> THEN <<cur>>
  ELSE IF Head(raw) \in Delims THEN <<cur>> \o split(Tail(raw), <<>>)
  ELSE split(Tail(raw), Append(cur, Head(raw)))

\* the loop of parse_models over the tokens, with its cleaned list and seen set
RECURSIVE dedupLastForm(_, _, _)
dedupLastForm(tokens, cleaned, seen) ==
  IF tokens = <<>> THEN cleaned
  ELSE LET t2 == strip(Head(tokens))
           key == upper(t2)
       IN IF t2 = <<>> THEN dedupLastForm(Tail(tokens), cleaned, seen)
          ELSE IF key \in seen
                 THEN dedupLastForm(Tail(tokens),
                        [i \in 1..Len(cleaned) |->
                           IF upper(cleaned[i]) = key THEN t2 ELSE cleaned[i]],
                        seen)
          ELSE dedupLastForm(Tail(tokens), Append(cleaned, t2), seen \cup {key})

RECURSIVE dedupPrepend(_, _, _)
dedupPrepend(tokens, cleaned, seen) ==
  IF tokens = <<>> THEN cleaned
  ELSE LET t2 == strip(Head(tokens))
           key == upper(t2)
       IN IF t2 = <<>> \/ key \in seen
            THEN dedupPrepend(Tail(tokens), cleaned, seen)
            ELSE dedupPrepend(Tail(tokens), <<t2>> \o cleaned, seen \cup {key})

RECURSIVE dedup(_, _, _)
dedup(tokens, cleaned, seen) ==
  IF tokens = <<>> THEN cleaned
  ELSE LET t2 == strip(Head(tokens))
           key == upper(t2)
       IN IF t2 = <<>> \/ key \in seen
            THEN dedup(Tail(tokens), cleaned, seen)
            ELSE dedup(Tail(tokens), Append(cleaned, t2), seen \cup {key})

parse_models(raw) ==
  IF strip(raw) = <<>> THEN <<>> ELSE dedup(split(raw, <<>>), <<>>, {})

\* ------------------------------------------------------------ load_catalog
\* rows products.csv is drawn from (after dtype=str and fillna("")): exact
\* and padded/lower-case spellings of one model, models containing another,
\* blank and whitespace-only MLP cells
CatRows ==
  { [Model |-> <<"A">>,      MLP |-> <<"M", "1">>, Description |-> <<"D", "1">>],
    [Model |-> <<"a", " ">>, MLP |-> <<"M", "2">>, Description |-> <<"D", "2">>],
    [Model |-> <<"A", "B">>, MLP |-> <<"M", "3">>, Description |-> <<"D", "3">>],
    [Model |-> <<"A">>,      MLP |-> <<>>,         Description |-> <<"D", "4">>],
    [Model |-> <<"B">>,      MLP |-> <<" ">>,      Description |-> <<"D", "5">>],
    [Model |-> <<"b", "A">>, MLP |-> <<"M", "6">>, Description |-> <<>>] }

\* the files: up to MaxCat of these rows, in any order, no row twice
CsvFiles ==
  { f \in UNION { [1..n -> CatRows] : n \in 0..MaxCat } :
      \A i, j \in DOMAIN f : i # j => f[i] # f[j] }

\* df["_key"] = df["Model"].astype(str).str.strip().str.upper()
load_catalog(rows) ==
  [i \in 1..Len(rows) |->
     [Model |-> rows[i].Model, MLP |-> rows[i].MLP,
      Description |-> rows[i].Description,
      _key |-> upper(strip(rows[i].Model))]]

\* ------------------------------------------------------------------- frames
\* q = DataFrame({"Model_in": models}); q["_key"] = strip + upper
query_frame(ms) ==
  [i \in 1..Len(ms) |-> [Model_in |-> ms[i], _key |-> upper(strip(ms[i]))]]

joined(l, r) ==
  [Model_in |-> l.Model_in, _key |-> l._key,
   Model |-> r.Model, MLP |-> r.MLP, Description |-> r.Description]

unmatched(l) ==
  [Model_in |-> l.Model_in, _key |-> l._key,
   Model |-> NaN, MLP |-> NaN, Description |-> NaN]

\* left.merge(right, on="_key", how="left"): the left rows in order, each
\* once per right row with its key (in the right frame's order), or once
\* with missing cells when no right row has its key
RECURSIVE merge(_, _)
merge(left, right) ==
  IF left = <<>> THEN <<>>
  ELSE LET l == Head(left)
           SameKey(r) == r._key = l._key
           hits == SelectSeq(right, SameKey)
       IN (IF hits = <<>> THEN <<unmatched(l)>>
           ELSE [i \in 1..Len(hits) |-> joined(l, hits[i])])
          \o merge(Tail(left), right)

\* --------------------------------------------------------- contains fallback
missing_maskNaOnly(r) == isna(r.MLP)

\* missing_mask: the MLP cell is missing, or blank after trimming
missing_mask(r) == isna(r.MLP) \/ strip(str(r.MLP)) = <<>>

\* Series.unique(): the distinct values in order of first appearance
RECURSIVE unique(_, _)
unique(s, seen) ==
  IF s = <<>> THEN <<>>
  ELSE IF Head(s) \in seen THEN unique(Tail(s), seen)
  ELSE <<Head(s)>> \o unique(Tail(s), seen \cup {Head(s)})

\* res.loc[missing_mask, "_key"].unique().tolist()
missing_keys(res) ==
  LET masked == SelectSeq(res, missing_mask)
  IN unique([i \in 1..Len(masked) |-> masked[i]._key], {})

\* cat_lc[cat_lc["_model_uc"].str.contains(re.escape(key))]: the catalog rows
\* whose upper-cased Model contains key, in catalog order
hit(catalog, key) ==
  LET Has(row) == contains(upper(row.Model), key)
  IN SelectSeq(catalog, Has)

RECURSIVE contains_rowsLastHit(_, _)
contains_rowsLastHit(keys, catalog) ==
  IF keys = <<>> THEN <<>>
  ELSE LET key == Head(keys)
           h == hit(catalog, key)
       IN (IF h = <<>> THEN <<>>
           ELSE <<[_key |-> key, Model |-> h[Len(h)].Model,
                   MLP |-> h[Len(h)].MLP,
                   Description |-> h[Len(h)].Description]>>)
          \o contains_rowsLastHit(Tail(keys), catalog)

\* one contains_rows entry per missing key with a hit: hit.iloc[0]
RECURSIVE contains_rows(_, _)
contains_rows(keys, catalog) ==
  IF keys = <<>> THEN <<>>
  ELSE LET key == Head(keys)
           h == hit(catalog, key)
       IN (IF h = <<>> THEN <<>>
           ELSE <<[_key |-> key, Model |-> h[1].Model, MLP |-> h[1].MLP,
                   Description |-> h[1].Description]>>)
          \o contains_rows(Tail(keys), catalog)

\* res.drop(columns=["Model", "MLP", "Description"])
drop(res) ==
  [i \in 1..Len(res) |-> [Model_in |-> res[i].Model_in, _key |-> res[i]._key]]

\* the body of "if allow_contains:"
contains_fallback(res, catalog) ==
  LET rows == contains_rows(missing_keys(res), catalog)
  IN IF rows = <<>> THEN res ELSE merge(drop(res), rows)

\* ------------------------------------------------------------------ display
StatusOfNoStrip(x) ==
  IF isna(x) \/ str(x) = <<>> THEN "Not found" ELSE "OK"

\* the lambda of the Status column
StatusOf(x) ==
  IF isna(x) \/ strip(str(x)) = <<>> THEN "Not found" ELSE "OK"

\* res_display["Model"] = Model.where(Model.notna(), Model_in), then Status
display(res) ==
  [i \in 1..Len(res) |->
     [Model_in |-> res[i].Model_in, _key |-> res[i]._key,
      Model |-> IF isna(res[i].Model) THEN res[i].Model_in ELSE res[i].Model,
      MLP |-> res[i].MLP, Description |-> res[i].Description,
      Status |-> StatusOf(res[i].MLP)]]

\* res_display[res_display["Status"] == "Not found"]
only_not_found(frame) ==
  LET NotFound(r) == r.Status = "Not found"
  IN SelectSeq(frame, NotFound)

\* res_display[["Model", "MLP", "Description", "Status"]]
final_columns(frame) ==
  [i \in 1..Len(frame) |->
     [Model |-> frame[i].Model, MLP |-> frame[i].MLP,
      Description |-> frame[i].Description, Status |-> frame[i].Status]]

\* int((res_display["Status"] == "OK").sum())
count_ok(frame) == Cardinality({i \in 1..Len(frame) : frame[i].Status = "OK"})

\* -------------------------------------------------------------------- state
\* The check box "Keep input order" (keep_order) is read nowhere in the
\* script, so it is no part of the state.
VARIABLES
  cat,                  \* the cached catalog frame
  user_text,            \* the paste box
  allow_contains,       \* check box "Use 'contains' if exact not found"
  show_only_not_found,  \* check box "Show only Not found"
  view,                 \* what the last run rendered: info, warning, results
  models,               \* parse_models(user_text) of the last search
  res,                  \* the joined frame of the last search (all columns)
  scanned,              \* missing_keys handed to the contains scan
  res_display,          \* the table rendered and offered for download
  matched               \* the count in the "Matched m of n" banner

vars == <<cat, user_text, allow_contains, show_only_not_found,
          view, models, res, scanned, res_display, matched>>

\* a run of the script without the button: the info banner, no table
Info ==
  /\ view' = "info"
  /\ models' = <<>>
  /\ res' = <<>>
  /\ scanned' = <<>>
  /\ res_display' = <<>>
  /\ matched' = 0

\* characters typed in the resolution specification
TextChars == {"a", "b", ","}

\* characters pasted in the parsing specification
RawChars == {"a", "A", "b", " ", ",", ";", "\n", "\t"}

Init ==
  /\ cat \in {load_catalog(f) : f \in CsvFiles}
  /\ user_text = <<>>
  /\ allow_contains = FALSE
  /\ show_only_not_found = FALSE
  /\ view = "info"
  /\ models = <<>>
  /\ res = <<>>
  /\ scanned = <<>>
  /\ res_display = <<>>
  /\ matched = 0

\* the user edits the paste box
TypeText ==
  /\ Len(user_text) < MaxText
  /\ \E c \in TextChars : user_text' = Append(user_text, c)
  /\ UNCHANGED <<cat, allow_contains, show_only_not_found>>
  /\ Info

ToggleContains ==
  /\ allow_contains' = ~allow_contains
  /\ UNCHANGED <<cat, user_text, show_only_not_found>>
  /\ Info

ToggleShowOnly ==
  /\ show_only_not_found' = ~show_only_not_found
  /\ UNCHANGED <<cat, user_text, allow_contains>>
  /\ Info

\* the "Find MLPs" button: the whole handler
FindMLPs ==
  LET ms == parse_models(user_text)
      exact == merge(query_frame(ms), cat)
      r == IF allow_contains THEN contains_fallback(exact, cat) ELSE exact
      shown == IF show_only_not_found THEN only_not_found(display(r))
               ELSE display(r)
  IN /\ UNCHANGED <<cat, user_text, allow_contains, show_only_not_found>>
     /\ IF ms = <<>>
          THEN /\ view' = "warning"
               /\ models' = <<>>
               /\ res' = <<>>
               /\ scanned' = <<>>
               /\ res_display' = <<>>
               /\ matched' = 0
          ELSE /\ view' = "results"
               /\ models' = ms
               /\ res' = r
               /\ scanned' = IF allow_contains THEN missing_keys(exact) ELSE <<>>
               /\ res_display' = final_columns(shown)
               /\ matched' = count_ok(shown)

Next == TypeText \/ ToggleContains \/ ToggleShowOnly \/ FindMLPs

Spec == Init /\ [][Next]_vars

\* ------------------------------------------------- parsing specification
\* one fixed catalog, default check boxes, any pasted text up to MaxRaw
InitParse ==
  /\ cat = load_catalog(<<[Model |-> <<"A">>, MLP |-> <<"M", "1">>,
                          Description |-> <<"D", "1">>]>>)
  /\ user_text = <<>>
  /\ allow_contains = FALSE
  /\ show_only_not_found = FALSE
  /\ view = "info"
  /\ models = <<>>
  /\ res = <<>>
  /\ scanned = <<>>
  /\ res_display = <<>>
  /\ matched = 0

PasteText ==
  /\ Len(user_text) < MaxRaw
  /\ \E c \in RawChars : user_text' = Append(user_text, c)
  /\ UNCHANGED <<cat, allow_contains, show_only_not_found>>
  /\ Info

NextParse == PasteText \/ FindMLPs

SpecParse == InitParse /\ [][NextParse]_vars

\* =================================================================== claims
\* the normalized form of a token: trimmed, upper-cased
Norm(t) == upper(strip(t))

\* the raw pieces of the pasted text, before trimming and deduplication
Pieces == split(user_text, <<>>)

\* the position in Pieces of the first piece with normalized form k
FirstPiece(k) ==
  CHOOSE n \in DOMAIN Pieces :
    /\ Norm(Pieces[n]) = k
    /\ \A m \in DOMAIN Pieces : Norm(Pieces[m]) = k => n <= m

\* the tokens joined with newlines
RECURSIVE JoinLines(_)
JoinLines(ts) ==
  IF ts = <<>> THEN <<>>
  ELSE IF Len(ts) = 1 THEN ts[1]
  ELSE ts[1] \o <<"\n">> \o JoinLines(Tail(ts))

\* C6 - Dedup invariant of parse: the list returned by parse_models has no
\* two tokens with equal normalized form, and each token is the trimmed
\* first piece of the input that has its normalized form.
C6_DedupFirstForm ==
  view = "results" =>
    /\ \A i, j \in DOMAIN models :
         i # j => Norm(models[i]) # Norm(models[j])
    /\ \A i \in DOMAIN models :
         /\ \E n \in DOMAIN Pieces : Norm(Pieces[n]) = Norm(models[i])
         /\ models[i] = strip(Pieces[FirstPiece(Norm(models[i]))])

\* C6 witness: a search whose input repeats a model in a different spelling
C6_Witness ==
  /\ view = "results"
  /\ \E n, m \in DOMAIN Pieces :
       /\ n < m
       /\ Norm(Pieces[n]) = Norm(Pieces[m])
       /\ Norm(Pieces[n]) # <<>>
       /\ strip(Pieces[n]) # strip(Pieces[m])

\* C7 - Order preservation of parse: every non-empty normalized form of the
\* input survives exactly once, and two surviving tokens stand in the order
\* of their first occurrences in the input.
C7_OrderPreserved ==
  view = "results" =>
    /\ \A n \in DOMAIN Pieces :
         Norm(Pieces[n]) # <<>> =>
           \E i \in DOMAIN models : Norm(models[i]) = Norm(Pieces[n])
    /\ \A i, j \in DOMAIN models :
         (/\ \E n \in DOMAIN Pieces : Norm(Pieces[n]) = Norm(models[i])
          /\ \E n \in DOMAIN Pieces : Norm(Pieces[n]) = Norm(models[j])
          /\ FirstPiece(Norm(models[i])) < FirstPiece(Norm(models[j])))
         => i < j

\* C7 witness: a search with two distinct models, the first given again later
C7_Witness ==
  /\ view = "results"
  /\ Len(models) >= 2
  /\ \E n, m, l \in DOMAIN Pieces :
       /\ n < m /\ m < l
       /\ Norm(Pieces[n]) = Norm(Pieces[l])
       /\ Norm(Pieces[n]) # Norm(Pieces[m])
       /\ Norm(Pieces[n]) # <<>> /\ Norm(Pieces[m]) # <<>>

\* C8 - Idempotence of parse: joining the parsed tokens with newlines and
\* parsing again returns the same tokens in the same order.
C8_ParseIdempotent ==
  view = "results" => parse_models(JoinLines(models)) = models

\* C8 witness: a search whose parse changed the input (trimmed or dropped
\* something) and kept at least two tokens
C8_Witness ==
  /\ view = "results"
  /\ Len(models) >= 2
  /\ JoinLines(models) # user_text

\* ------------------------------------------------------- resolution claims
\* an MLP cell that is bound and non-empty after trimming
NonBlank(x) == ~isna(x) /\ strip(x) # <<>>

\* the catalog rows whose normalized model is k
ExactRows(k) == {j \in DOMAIN cat : Norm(cat[j].Model) = k}

\* the catalog rows whose upper-cased model contains k
ContainsRows(k) == {j \in DOMAIN cat : contains(upper(cat[j].Model), k)}

\* the least element of a non-empty set of row numbers
First(S) == CHOOSE j \in S : \A m \in S : j <= m

\* result row r of the joined frame carries catalog row j
Carries(r, j) ==
  /\ r.Model = cat[j].Model
  /\ r.MLP = cat[j].MLP
  /\ r.Description = cat[j].Description

\* the normalized keys of the last search
Keys == {Norm(models[i]) : i \in DOMAIN models}

\* C1 - Exact-match precedence within a request: with allowContains on, each
\* key that exactly matches a catalog row with a non-empty MLP has a result
\* row carrying such a row's mlp/description with status OK, whatever the
\* contains fallback does for the other keys of the request.  Stated in the
\* claim's weakest reading (every exactly matching row has a non-empty MLP,
\* any one of them may be carried), so that a violation owes nothing to
\* duplicate catalog keys or to blank MLP cells.
C1_ExactMatchKept ==
  (view = "results" /\ allow_contains) =>
    \A k \in Keys :
      (ExactRows(k) # {} /\ \A j \in ExactRows(k) : NonBlank(cat[j].MLP)) =>
        \E i \in DOMAIN res :
          /\ res[i]._key = k
          /\ \E j \in ExactRows(k) : NonBlank(cat[j].MLP) /\ Carries(res[i], j)
          /\ NonBlank(res[i].MLP)

\* C2 - Resolution totality: without the showOnlyNotFound filter a search
\* yields exactly one result entry per parsed key, each OK or Not found.
C2_OneEntryPerKey ==
  (view = "results" /\ ~show_only_not_found) =>
    /\ Len(res_display) = Len(models)
    /\ \A i \in DOMAIN res_display :
         res_display[i].Status \in {"OK", "Not found"}

\* C3 - First-wins on duplicate catalog keys: an exact lookup of a key that
\* several catalog rows normalize to resolves to the first such row only.
C3_FirstRowWins ==
  (view = "results" /\ ~allow_contains) =>
    \A i \in DOMAIN res :
      ExactRows(res[i]._key) # {} => Carries(res[i], First(ExactRows(res[i]._key)))

\* C9 - Output order equals input order: the i-th result entry belongs to
\* the i-th parsed key, and under the showOnlyNotFound filter the table is
\* exactly the Not found entries.
C9_OutputFollowsInput ==
  view = "results" =>
    /\ Len(res) = Len(models)
    /\ \A i \in DOMAIN res : i \in DOMAIN models /\ res[i].Model_in = models[i]
    /\ show_only_not_found =>
         /\ \A i \in DOMAIN res_display : res_display[i].Status = "Not found"
         /\ Len(res_display) =
              Cardinality({i \in DOMAIN res : ~NonBlank(res[i].MLP)})

\* C4 (as claimed) - Contains-matching never reconsiders a key that had an
\* exact match: with allowContains on, no key with an exactly matching
\* catalog row is handed to the contains scan, and its result rows carry
\* nothing from a row of another key, also when the matched row's MLP is
\* blank.
C4_ExactNeverScanned ==
  (view = "results" /\ allow_contains) =>
    /\ \A n \in DOMAIN scanned : ExactRows(scanned[n]) = {}
    /\ \A i \in DOMAIN res :
         ExactRows(res[i]._key) # {} =>
           \/ isna(res[i].MLP)
           \/ \E j \in ExactRows(res[i]._key) : Carries(res[i], j)

\* C4 (amended) - With allowContains on, a key is handed to the contains
\* scan exactly when it has no exactly matching catalog row or one of its
\* exactly matching rows has a blank MLP.  A key whose exactly matching rows
\* all have a non-empty MLP is not scanned and carries nothing from a row of
\* another key; a key whose exactly matching row has a blank MLP is scanned
\* like an unmatched key and takes the first catalog row containing it.
C4_ScanOnlyNotFound ==
  (view = "results" /\ allow_contains) =>
    /\ \A k \in Keys :
         (\E n \in DOMAIN scanned : scanned[n] = k)
           <=> (\/ ExactRows(k) = {}
                \/ \E j \in ExactRows(k) : ~NonBlank(cat[j].MLP))
    /\ \A i \in DOMAIN res :
         LET k == res[i]._key
         IN /\ (ExactRows(k) # {} /\ \A j \in ExactRows(k) : NonBlank(cat[j].MLP))
                 => \/ isna(res[i].MLP)
                    \/ \E j \in ExactRows(k) : Carries(res[i], j)
            /\ (\E j \in ExactRows(k) : ~NonBlank(cat[j].MLP))
                 => Carries(res[i], First(ContainsRows(k)))

\* C4 witness: a search with the fallback on in which a key whose exactly
\* matching row has a blank MLP took the MLP of a row of another key
C4_Witness ==
  /\ view = "results"
  /\ allow_contains
  /\ \E i \in DOMAIN res :
       /\ \E j \in ExactRows(res[i]._key) : ~NonBlank(cat[j].MLP)
       /\ NonBlank(res[i].MLP)
       /\ \A j \in ExactRows(res[i]._key) : ~Carries(res[i], j)

\* C5 (as claimed) - Status rule: a result entry is OK exactly when its mlp
\* is bound and non-empty after trimming, and a key that exactly matches a
\* catalog row with a blank or whitespace-only MLP is reported Not found.
C5_StatusRule ==
  view = "results" =>
    /\ \A i \in DOMAIN res_display :
         /\ res_display[i].Status \in {"OK", "Not found"}
         /\ res_display[i].Status = "OK" <=> NonBlank(res_display[i].MLP)
    /\ \A k \in Keys :
         (\E j \in ExactRows(k) : ~NonBlank(cat[j].MLP)) =>
           \E i \in DOMAIN res : res[i]._key = k /\ ~NonBlank(res[i].MLP)

\* C5 (amended) - Status rule: a result entry is OK exactly when its mlp is
\* bound and non-empty after trimming; and when allowContains is off, a key
\* that exactly matches a catalog row with a blank or whitespace-only MLP
\* has an entry showing that row with status Not found.
C5_StatusRuleExactOnly ==
  view = "results" =>
    /\ \A i \in DOMAIN res_display :
         /\ res_display[i].Status \in {"OK", "Not found"}
         /\ res_display[i].Status = "OK" <=> NonBlank(res_display[i].MLP)
    /\ ~allow_contains =>
         \A k \in Keys : \A j \in ExactRows(k) :
           ~NonBlank(cat[j].MLP) =>
             \E i \in DOMAIN res_display :
               /\ res_display[i].Model = cat[j].Model
               /\ res_display[i].MLP = cat[j].MLP
               /\ res_display[i].Description = cat[j].Description
               /\ res_display[i].Status = "Not found"

\* C5 witness: a search without the fallback showing an exactly matched row
\* whose MLP is whitespace only
C5_Witness ==
  /\ view = "results"
  /\ ~allow_contains
  /\ \E i \in DOMAIN res_display :
       /\ ~isna(res_display[i].MLP)
       /\ res_display[i].MLP # <<>>
       /\ strip(res_display[i].MLP) = <<>>

====
